---- MODULE Spec2Model ----
(***************************************************************************)
(* Model of the octilinear line router of metromap.io                      *)
(* (src/src/app/game/pathfinding/LinePath.ts).                             *)
(*                                                                         *)
(* Numbers.  Stations sit on integer grid vertices.  Every coordinate the  *)
(* router computes is a multiple of 1/2: the midpoint fallback divides by  *)
(* 2, and the intersection parameter t1 is an integer divided by the       *)
(* determinant of two direction vectors, which is 0, +-1 or +-2.  Waypoint *)
(* coordinates are therefore kept exactly, in half grid units, in the      *)
(* fields twoX = 2*x and twoY = 2*y.  Angles handed to angleDifference are *)
(* in millidegrees (1000 = one degree); Direction values are degrees, as   *)
(* in the enum.  Math.hypot sums are compared exactly through squares.     *)
(***************************************************************************)
EXTENDS Integers, Sequences, FiniteSets, TLC

VARIABLES from, to, previousAngle, segment, pc,   \* one calculateSegmentPath call
          curves, path, config,                   \* one renderLineToCanvas / buildSVGPath call
          stations, gridSize, segments,           \* one renderLine call
          rawAngle, snappedAngle,                 \* the snap of one raw angle
          rayAngle1, rayAngle2, bendPosition,        \* one calculateOptimalBendPosition call
          gameState, stationMode,                 \* MetroBuildingScreen
          isRunning, currentSpeed, lastUpdateTime,\* MetroSimulationScreen
          clock,                                  \* what performance.now() returns
          startTime, firstUpdatePending,          \* history: the last startSimulation
          stopCalls,                              \* stopSimulation calls at an await
          savedGameState, handedGameState,        \* arguments of the last saveGameState
                                                  \* and of the hand-over to the next screen
          currentScreen,                          \* engine().navigation.currentScreen
          currentSeed, currentMap,                \* MapPickerScreen
          startCalls,                             \* startMetroBuilding calls at the await
          seedPresses                             \* history: presses of -, + and Random

vars == <<from, to, previousAngle, segment, pc, curves, path, config,
          stations, gridSize, segments, rawAngle, snappedAngle,
          rayAngle1, rayAngle2, bendPosition, gameState, stationMode,
          isRunning, currentSpeed, lastUpdateTime, clock,
          startTime, firstUpdatePending, stopCalls, savedGameState,
          handedGameState, currentScreen, currentSeed, currentMap,
          startCalls, seedPresses>>

curveVars == <<curves, path, config>>

lineVars == <<stations, gridSize, segments>>

snapVars == <<rawAngle, snappedAngle>>

bendVars == <<rayAngle1, rayAngle2, bendPosition>>

\* the fields of the three screens
stopVars == <<stopCalls, savedGameState, handedGameState, currentScreen>>

simVars == <<isRunning, currentSpeed, lastUpdateTime, clock,
             startTime, firstUpdatePending, stopVars>>

pickerVars == <<currentSeed, currentMap, startCalls, seedPresses>>

screenVars == <<gameState, stationMode, simVars, pickerVars>>

\* Largest vertex coordinate of the grid the inputs are drawn from.
GridMax == 4

\* ------------------------------------------------------------------------
\* Data model
\* ------------------------------------------------------------------------

\* enum Direction
EAST == 0
SOUTHEAST == 45
SOUTH == 90
SOUTHWEST == 135
WEST == 180
NORTHWEST == 225
NORTH == 270
NORTHEAST == 315

Direction == {EAST, SOUTHEAST, SOUTH, SOUTHWEST, WEST, NORTHWEST, NORTH, NORTHEAST}

\* `previousAngle: Direction | null`: null, encoded as a number that is no
\* Direction
Null == -1

\* an optional Waypoint field that was not set, encoded likewise
Undefined == -2

DIRECTION_VECTORS ==
  [d \in Direction |->
     CASE d = EAST      -> [dx |-> 1,  dy |-> 0]
       [] d = SOUTHEAST -> [dx |-> 1,  dy |-> 1]
       [] d = SOUTH     -> [dx |-> 0,  dy |-> 1]
       [] d = SOUTHWEST -> [dx |-> -1, dy |-> 1]
       [] d = WEST      -> [dx |-> -1, dy |-> 0]
       [] d = NORTHWEST -> [dx |-> -1, dy |-> -1]
       [] d = NORTH     -> [dx |-> 0,  dy |-> -1]
       [] d = NORTHEAST -> [dx |-> 1,  dy |-> -1]]

\* Station: only the vertex coordinates are read by the router.
Station == [vertexX : 0..GridMax, vertexY : 0..GridMax]

Abs(n) == IF n < 0 THEN -n ELSE n

\* ------------------------------------------------------------------------
\* Math.atan2(dy, dx) * 180 / Math.PI, in millidegrees
\* ------------------------------------------------------------------------

\* AtanTable[a][b + 1] is atan(b / a) in millidegrees, rounded to nearest,
\* for 0 <= b <= a <= 12.
AtanTable ==
  << <<0, 45000>>,
     <<0, 26565, 45000>>,
     <<0, 18435, 33690, 45000>>,
     <<0, 14036, 26565, 36870, 45000>>,
     <<0, 11310, 21801, 30964, 38660, 45000>>,
     <<0, 9462, 18435, 26565, 33690, 39806, 45000>>,
     <<0, 8130, 15945, 23199, 29745, 35538, 40601, 45000>>,
     <<0, 7125, 14036, 20556, 26565, 32005, 36870, 41186, 45000>>,
     <<0, 6340, 12529, 18435, 23962, 29055, 33690, 37875, 41634, 45000>>,
     <<0, 5711, 11310, 16699, 21801, 26565, 30964, 34992, 38660, 41987, 45000>>,
     <<0, 5194, 10305, 15255, 19983, 24444, 28610, 32471, 36027, 39289, 42274, 45000>>,
     <<0, 4764, 9462, 14036, 18435, 22620, 26565, 30256, 33690, 36870, 39806, 42510, 45000>> >>

\* The angle of (|dx|, |dy|) in the first quadrant; atan2(0, 0) is 0.
FirstQuadrant(a, b) ==
  IF a = 0 /\ b = 0 THEN 0
  ELSE IF b <= a THEN AtanTable[a][b + 1]
  ELSE 90000 - AtanTable[b][a + 1]

\* the angle as it would be with the arguments swapped, Math.atan2(dx, dy)
Atan2Milli_swapsArguments(dy, dx) ==
  LET q == FirstQuadrant(Abs(dy), Abs(dx))
  IN  IF dx >= 0
      THEN IF dy >= 0 THEN q ELSE 180000 - q
      ELSE IF dy >= 0 THEN -q ELSE q - 180000

\* the angle as it would be from Math.atan(dy / dx), which loses the quadrant
\* (atan(0 / 0) is NaN, for which the snap keeps its initial EAST)
Atan2Milli_ignoresQuadrant(dy, dx) ==
  LET q == FirstQuadrant(Abs(dx), Abs(dy))
  IN  IF (dy >= 0 /\ dx >= 0) \/ (dy <= 0 /\ dx <= 0) THEN q ELSE -q

\* atan2 in (-180, 180] degrees: dy = 0 is +0, so atan2(0, dx < 0) is +180.
Atan2Milli(dy, dx) ==
  LET q == FirstQuadrant(Abs(dx), Abs(dy))
  IN  IF dy >= 0
      THEN IF dx >= 0 THEN q ELSE 180000 - q
      ELSE IF dx >= 0 THEN -q ELSE q - 180000

\* ------------------------------------------------------------------------
\* angleDifference, calculateSnapAngle
\* ------------------------------------------------------------------------

RECURSIVE WhileAbove(_)
WhileAbove(diff) == IF diff > 180000 THEN WhileAbove(diff - 360000) ELSE diff

RECURSIVE WhileBelow(_)
WhileBelow(diff) == IF diff < -180000 THEN WhileBelow(diff + 360000) ELSE diff

\* angleDifference as it would be without the two normalising loops
angleDifference_noWraparound(angle1, angle2) == angle1 - angle2

\* angleDifference(angle1, angle2), both in millidegrees
angleDifference(angle1, angle2) == WhileBelow(WhileAbove(angle1 - angle2))

possibleAngles == <<0, 45, 90, 135, 180, 225, 270, 315>>

\* the `for (const angle of possibleAngles)` loop, from index i on
RECURSIVE SnapLoop(_, _, _, _)
SnapLoop(raw, i, minDiff, snapped) ==
  IF i > Len(possibleAngles) THEN snapped
  ELSE LET angle == possibleAngles[i]
           diff == Abs(angleDifference(raw, angle * 1000))
       IN  IF diff < minDiff
           THEN SnapLoop(raw, i + 1, diff, angle)
           ELSE SnapLoop(raw, i + 1, minDiff, snapped)

\* calculateSnapAngle as it would be if it rounded the raw angle to a multiple
\* of 45 (Math.round(rawAngle / 45) * 45) and so kept atan2's negative angles
calculateSnapAngle_roundsRawAngle(f, t) ==
  LET dx == t.vertexX - f.vertexX
      dy == t.vertexY - f.vertexY
      raw == Atan2Milli(dy, dx)
  IN  45 * ((raw + 22500) \div 45000)

\* the snap as it would be if the loop were replaced by rounding to the
\* nearest multiple of 45, halves rounding up
snapToIncrement_roundsHalfUp(raw) ==
  (45 * ((raw + 22500) \div 45000) + 360) % 360

\* "Snap to nearest 45-degree increment": the part of calculateSnapAngle that
\* follows the computation of rawAngle (raw, in millidegrees)
snapToIncrement(raw) ==
  SnapLoop(raw, 1, Abs(angleDifference(raw, possibleAngles[1] * 1000)),
           possibleAngles[1])

calculateSnapAngle(f, t) ==
  LET dx == t.vertexX - f.vertexX
      dy == t.vertexY - f.vertexY
      raw == Atan2Milli(dy, dx)
  IN  snapToIncrement(raw)

\* ------------------------------------------------------------------------
\* solveLineIntersection
\* ------------------------------------------------------------------------

\* The result is `null` (found = FALSE) or the point {x, y}, kept doubled.
NoIntersection == [found |-> FALSE, twoX |-> 0, twoY |-> 0]

\* solveLineIntersection as it would be if it tested what its comment says,
\* `t1 < 0` ("check if t1 is positive"), instead of `t1 < 0.5`
solveLineIntersection_acceptsZero(x1, y1, dx1, dy1, x2, y2, dx2, dy2) ==
  LET denominator == dx1 * dy2 - dy1 * dx2
      numerator == (x2 - x1) * dy2 - (y2 - y1) * dx2
      behind == IF denominator > 0 THEN numerator < 0 ELSE numerator > 0
      twoT1 == IF denominator > 0
               THEN (2 * numerator) \div denominator
               ELSE (-(2 * numerator)) \div (-denominator)
  IN  IF Abs(denominator) * 10000 < 1 THEN NoIntersection
      ELSE IF behind THEN NoIntersection
      ELSE [found |-> TRUE,
            twoX |-> 2 * x1 + twoT1 * dx1,
            twoY |-> 2 * y1 + twoT1 * dy1]

\* solveLineIntersection as it would be with a sign slipped in t1's numerator
solveLineIntersection_signSlip(x1, y1, dx1, dy1, x2, y2, dx2, dy2) ==
  LET denominator == dx1 * dy2 - dy1 * dx2
      numerator == (x2 - x1) * dy2 + (y2 - y1) * dx2
      tooClose == IF denominator > 0 THEN 2 * numerator < denominator
                                     ELSE 2 * numerator > denominator
      twoT1 == IF denominator > 0
               THEN (2 * numerator) \div denominator
               ELSE (-(2 * numerator)) \div (-denominator)
  IN  IF Abs(denominator) * 10000 < 1 THEN NoIntersection
      ELSE IF tooClose THEN NoIntersection
      ELSE [found |-> TRUE,
            twoX |-> 2 * x1 + twoT1 * dx1,
            twoY |-> 2 * y1 + twoT1 * dy1]

\* solveLineIntersection as it would be without the test on t1
solveLineIntersection_noThreshold(x1, y1, dx1, dy1, x2, y2, dx2, dy2) ==
  LET denominator == dx1 * dy2 - dy1 * dx2
      numerator == (x2 - x1) * dy2 - (y2 - y1) * dx2
      twoT1 == IF denominator > 0
               THEN (2 * numerator) \div denominator
               ELSE (-(2 * numerator)) \div (-denominator)
  IN  IF Abs(denominator) * 10000 < 1 THEN NoIntersection
      ELSE [found |-> TRUE,
            twoX |-> 2 * x1 + twoT1 * dx1,
            twoY |-> 2 * y1 + twoT1 * dy1]

solveLineIntersection(x1, y1, dx1, dy1, x2, y2, dx2, dy2) ==
  LET denominator == dx1 * dy2 - dy1 * dx2
      \* t1 = numerator / denominator
      numerator == (x2 - x1) * dy2 - (y2 - y1) * dx2
      \* t1 < 0.5, decided without dividing
      tooClose == IF denominator > 0 THEN 2 * numerator < denominator
                                     ELSE 2 * numerator > denominator
      \* 2 * t1: the division is exact, |denominator| being 1 or 2
      twoT1 == IF denominator > 0
               THEN (2 * numerator) \div denominator
               ELSE (-(2 * numerator)) \div (-denominator)
  IN  IF Abs(denominator) * 10000 < 1 THEN NoIntersection  \* parallel lines
      ELSE IF tooClose THEN NoIntersection                \* too close to station
      ELSE [found |-> TRUE,
            twoX |-> 2 * x1 + twoT1 * dx1,
            twoY |-> 2 * y1 + twoT1 * dy1]

\* ------------------------------------------------------------------------
\* calculateOptimalBendPosition
\* ------------------------------------------------------------------------

\* sqrt(a) + sqrt(b) < 2 * sqrt(c) for naturals a, b, c, decided exactly:
\* it is 2 * sqrt(a * b) < 4c - a - b.
RootSumBelowTwice(a, b, c) ==
  LET r == 4 * c - a - b
  IN  r > 0 /\ 4 * a * b < r * r

\* the length test as it would be if it never rejected a bend
bendIsReasonable_alwaysTrue(f, t, twoX, twoY) == TRUE

\* the length test as it would be without the factor 2,
\* `distToFrom + distToTo < directDist`: sqrt(a) + sqrt(b) < sqrt(c) is
\* 2 * sqrt(a * b) < c - a - b
bendIsReasonable_noFactorTwo(f, t, twoX, twoY) ==
  LET a == (twoX - 2 * f.vertexX) * (twoX - 2 * f.vertexX)
           + (twoY - 2 * f.vertexY) * (twoY - 2 * f.vertexY)
      b == (twoX - 2 * t.vertexX) * (twoX - 2 * t.vertexX)
           + (twoY - 2 * t.vertexY) * (twoY - 2 * t.vertexY)
      c == (2 * t.vertexX - 2 * f.vertexX) * (2 * t.vertexX - 2 * f.vertexX)
           + (2 * t.vertexY - 2 * f.vertexY) * (2 * t.vertexY - 2 * f.vertexY)
      r == c - a - b
  IN  r > 0 /\ 4 * a * b < r * r

\* `distToFrom + distToTo < directDist * 2` for the doubled point (twoX, twoY);
\* every Math.hypot argument is doubled, which scales both sides alike.
bendIsReasonable(f, t, twoX, twoY) ==
  LET distToFromSq == (twoX - 2 * f.vertexX) * (twoX - 2 * f.vertexX)
                      + (twoY - 2 * f.vertexY) * (twoY - 2 * f.vertexY)
      distToToSq == (twoX - 2 * t.vertexX) * (twoX - 2 * t.vertexX)
                    + (twoY - 2 * t.vertexY) * (twoY - 2 * t.vertexY)
      directDistSq == (2 * t.vertexX - 2 * f.vertexX) * (2 * t.vertexX - 2 * f.vertexX)
                      + (2 * t.vertexY - 2 * f.vertexY) * (2 * t.vertexY - 2 * f.vertexY)
  IN  RootSumBelowTwice(distToFromSq, distToToSq, directDistSq)

\* Reading .dx of DIRECTION_VECTORS[angle] throws a TypeError when angle is
\* not a key of the table (threw = TRUE).
BendThrew == [threw |-> TRUE, twoX |-> 0, twoY |-> 0]

\* `(from + to) / 2`, doubled
midpointBend(f, t) ==
  [threw |-> FALSE, twoX |-> f.vertexX + t.vertexX, twoY |-> f.vertexY + t.vertexY]

\* calculateOptimalBendPosition as it would be if the fallback returned
\* `from` instead of the midpoint
calculateOptimalBendPosition_fallbackAtFrom(f, t, angle1, angle2) ==
  IF angle1 \notin DOMAIN DIRECTION_VECTORS \/ angle2 \notin DOMAIN DIRECTION_VECTORS
  THEN BendThrew
  ELSE
    LET dir1 == DIRECTION_VECTORS[angle1]
        dir2 == DIRECTION_VECTORS[angle2]
        intersection == solveLineIntersection(f.vertexX, f.vertexY, dir1.dx, dir1.dy,
                                              t.vertexX, t.vertexY, -dir2.dx, -dir2.dy)
    IN  IF intersection.found
           /\ bendIsReasonable(f, t, intersection.twoX, intersection.twoY)
        THEN [threw |-> FALSE, twoX |-> intersection.twoX, twoY |-> intersection.twoY]
        ELSE [threw |-> FALSE, twoX |-> 2 * f.vertexX, twoY |-> 2 * f.vertexY]

calculateOptimalBendPosition(f, t, angle1, angle2) ==
  IF angle1 \notin DOMAIN DIRECTION_VECTORS \/ angle2 \notin DOMAIN DIRECTION_VECTORS
  THEN BendThrew
  ELSE
    LET dir1 == DIRECTION_VECTORS[angle1]
        dir2 == DIRECTION_VECTORS[angle2]
        intersection == solveLineIntersection(f.vertexX, f.vertexY, dir1.dx, dir1.dy,
                                              t.vertexX, t.vertexY, -dir2.dx, -dir2.dy)
    IN  IF intersection.found
           /\ bendIsReasonable(f, t, intersection.twoX, intersection.twoY)
        THEN [threw |-> FALSE, twoX |-> intersection.twoX, twoY |-> intersection.twoY]
        ELSE midpointBend(f, t)

\* ------------------------------------------------------------------------
\* generateWaypoints, calculateSegmentPath
\* ------------------------------------------------------------------------

Waypoint(twoX, twoY, type, incomingAngle, outgoingAngle) ==
  [twoX |-> twoX, twoY |-> twoY, type |-> type,
   incomingAngle |-> incomingAngle, outgoingAngle |-> outgoingAngle]

\* generateWaypoints as it would be if the knee were pushed with the type of
\* its neighbours
generateWaypoints_kneeTypedStation(f, t, entryAngle, targetAngle) ==
  LET start == Waypoint(2 * f.vertexX, 2 * f.vertexY, "STATION", Undefined, entryAngle)
      end == Waypoint(2 * t.vertexX, 2 * t.vertexY, "STATION", targetAngle, Undefined)
  IN  IF entryAngle = targetAngle
      THEN [threw |-> FALSE, waypoints |-> <<start, end>>]
      ELSE LET bendPoint == calculateOptimalBendPosition(f, t, entryAngle, targetAngle)
               bend == Waypoint(bendPoint.twoX, bendPoint.twoY, "STATION",
                                entryAngle, targetAngle)
           IN  IF bendPoint.threw
               THEN [threw |-> TRUE, waypoints |-> <<start>>]
               ELSE [threw |-> FALSE, waypoints |-> <<start, bend, end>>]

\* generateWaypoints as it would be without the early return of the straight
\* case
generateWaypoints_noStraightCase(f, t, entryAngle, targetAngle) ==
  LET start == Waypoint(2 * f.vertexX, 2 * f.vertexY, "STATION", Undefined, entryAngle)
      end == Waypoint(2 * t.vertexX, 2 * t.vertexY, "STATION", targetAngle, Undefined)
      bendPoint == calculateOptimalBendPosition(f, t, entryAngle, targetAngle)
      bend == Waypoint(bendPoint.twoX, bendPoint.twoY, "BEND", entryAngle, targetAngle)
  IN  IF bendPoint.threw
      THEN [threw |-> TRUE, waypoints |-> <<start>>]
      ELSE [threw |-> FALSE, waypoints |-> <<start, bend, end>>]

\* generateWaypoints as it would be if the knee's outgoing angle were copied
\* from its incoming angle
generateWaypoints_kneeKeepsEntry(f, t, entryAngle, targetAngle) ==
  LET start == Waypoint(2 * f.vertexX, 2 * f.vertexY, "STATION", Undefined, entryAngle)
      end == Waypoint(2 * t.vertexX, 2 * t.vertexY, "STATION", targetAngle, Undefined)
  IN  IF entryAngle = targetAngle
      THEN [threw |-> FALSE, waypoints |-> <<start, end>>]
      ELSE LET bendPoint == calculateOptimalBendPosition(f, t, entryAngle, targetAngle)
               bend == Waypoint(bendPoint.twoX, bendPoint.twoY, "BEND",
                                entryAngle, entryAngle)
           IN  IF bendPoint.threw
               THEN [threw |-> TRUE, waypoints |-> <<start>>]
               ELSE [threw |-> FALSE, waypoints |-> <<start, bend, end>>]

generateWaypoints(f, t, entryAngle, targetAngle) ==
  LET start == Waypoint(2 * f.vertexX, 2 * f.vertexY, "STATION", Undefined, entryAngle)
      end == Waypoint(2 * t.vertexX, 2 * t.vertexY, "STATION", targetAngle, Undefined)
  IN  IF entryAngle = targetAngle
      THEN [threw |-> FALSE, waypoints |-> <<start, end>>]
      ELSE LET bendPoint == calculateOptimalBendPosition(f, t, entryAngle, targetAngle)
               bend == Waypoint(bendPoint.twoX, bendPoint.twoY, "BEND",
                                entryAngle, targetAngle)
           IN  IF bendPoint.threw
               THEN [threw |-> TRUE, waypoints |-> <<start>>]
               ELSE [threw |-> FALSE, waypoints |-> <<start, bend, end>>]

\* The value of `segment` before any call has returned.
NoSegment ==
  [status |-> "none", fromStation |-> [vertexX |-> 0, vertexY |-> 0],
   toStation |-> [vertexX |-> 0, vertexY |-> 0],
   entryAngle |-> Undefined, exitAngle |-> Undefined, waypoints |-> <<>>]

\* calculateSegmentPath as it would be with `previousAngle ?? Direction.EAST`
calculateSegmentPath_defaultsToEast(f, t, prev) ==
  LET directAngle == calculateSnapAngle(f, t)
      entryAngle == IF prev = Null THEN EAST ELSE prev
      generated == generateWaypoints(f, t, entryAngle, directAngle)
  IN  IF generated.threw
      THEN [NoSegment EXCEPT !.status = "TypeError"]
      ELSE [status |-> "ok", fromStation |-> f, toStation |-> t,
            entryAngle |-> entryAngle, exitAngle |-> directAngle,
            waypoints |-> generated.waypoints]

\* calculateSegmentPath as it would be if it ignored previousAngle
calculateSegmentPath_dropsEntry(f, t, prev) ==
  LET directAngle == calculateSnapAngle(f, t)
      generated == generateWaypoints(f, t, directAngle, directAngle)
  IN  IF generated.threw
      THEN [NoSegment EXCEPT !.status = "TypeError"]
      ELSE [status |-> "ok", fromStation |-> f, toStation |-> t,
            entryAngle |-> directAngle, exitAngle |-> directAngle,
            waypoints |-> generated.waypoints]

\* calculateSegmentPath as it would be with `exitAngle = entryAngle`
calculateSegmentPath_exitIsEntry(f, t, prev) ==
  LET directAngle == calculateSnapAngle(f, t)
      entryAngle == IF prev = Null THEN directAngle ELSE prev
      generated == generateWaypoints(f, t, entryAngle, directAngle)
  IN  IF generated.threw
      THEN [NoSegment EXCEPT !.status = "TypeError"]
      ELSE [status |-> "ok", fromStation |-> f, toStation |-> t,
            entryAngle |-> entryAngle, exitAngle |-> entryAngle,
            waypoints |-> generated.waypoints]

\* status is "ok" when a LineSegment is returned and names the error when the
\* call throws instead.
calculateSegmentPath(f, t, prev) ==
  LET directAngle == calculateSnapAngle(f, t)
      entryAngle == IF prev = Null THEN directAngle ELSE prev
      generated == generateWaypoints(f, t, entryAngle, directAngle)
      exitAngle == directAngle
  IN  IF generated.threw
      THEN [NoSegment EXCEPT !.status = "TypeError"]
      ELSE [status |-> "ok", fromStation |-> f, toStation |-> t,
            entryAngle |-> entryAngle, exitAngle |-> exitAngle,
            waypoints |-> generated.waypoints]

\* ------------------------------------------------------------------------
\* calculateCornerRadius, createBendCurve (the design document's fillet code)
\*
\* BendRenderConfig is kept as lineWidth and tightness in quarters
\* (lineWidth = lineWidthQuarters / 4, tightness = tightnessQuarters / 4).
\* Radii and curve points are kept in 1/32 of the waypoints' unit: with
\* angles that are multiples of 45 every product below is a whole number of
\* 32nds and every \div is exact.
\* ------------------------------------------------------------------------

\* baseRadius = lineWidth * 2; angleFactor = |angleDiff| / 90;
\* baseRadius * (1 + angleFactor * 0.5) is baseRadius * (180 + |angleDiff|) / 180
calculateCornerRadius(lineWidthQuarters, angleDiff) ==
  LET baseRadius32 == 16 * lineWidthQuarters
  IN  (baseRadius32 * (180 + Abs(angleDiff))) \div 180

Point32(x32, y32) == [x32 |-> x32, y32 |-> y32]

\* Nothing has been drawn.
NoCurve == curves = <<>> /\ path = <<>>

NoConfig == [lineWidthQuarters |-> 0, tightnessQuarters |-> 0]

\* The BezierCurve {start, control1, control2, end}; radius32 keeps the local
\* `radius` of the call.
createBendCurve(waypoint, incomingAngle, outgoingAngle, cfg) ==
  LET radius == calculateCornerRadius(cfg.lineWidthQuarters,
                                      outgoingAngle - incomingAngle)
      inDir == DIRECTION_VECTORS[incomingAngle]
      outDir == DIRECTION_VECTORS[outgoingAngle]
      curveStart == Point32(16 * waypoint.twoX - radius * inDir.dx,
                            16 * waypoint.twoY - radius * inDir.dy)
      curveEnd == Point32(16 * waypoint.twoX + radius * outDir.dx,
                          16 * waypoint.twoY + radius * outDir.dy)
      controlDistance == (radius * cfg.tightnessQuarters) \div 4
      control1 == Point32(curveStart.x32 + controlDistance * inDir.dx,
                          curveStart.y32 + controlDistance * inDir.dy)
      control2 == Point32(curveEnd.x32 - controlDistance * outDir.dx,
                          curveEnd.y32 - controlDistance * outDir.dy)
  IN  [radius32 |-> radius,
       start |-> curveStart, control1 |-> control1,
       control2 |-> control2, end |-> curveEnd]

\* `if (next.type === 'BEND' || current.type === 'BEND')` for the waypoints
\* j and j + 1
isBendPair(waypoints, j) ==
  waypoints[j + 1].type = "BEND" \/ waypoints[j].type = "BEND"

\* the createBendCurve call of buildSVGPath and renderLineToCanvas for the
\* waypoints j and j + 1 of segment i:
\* createBendCurve(current.type === 'BEND' ? current : next,
\*                 current.outgoingAngle, next.incomingAngle, config).
\* `bend` is the index of the waypoint passed; the angles passed are kept.
pairCurve(i, waypoints, j, cfg) ==
  LET current == waypoints[j]
      next == waypoints[j + 1]
      bend == IF current.type = "BEND" THEN j ELSE j + 1
      made == createBendCurve(waypoints[bend], current.outgoingAngle,
                              next.incomingAngle, cfg)
  IN  [segment |-> i, bend |-> bend,
       incomingAngle |-> current.outgoingAngle,
       outgoingAngle |-> next.incomingAngle,
       radius32 |-> made.radius32,
       start |-> made.start, control1 |-> made.control1,
       control2 |-> made.control2, end |-> made.end]

\* what one turn of the loop over waypoint pairs adds to the path: a line to
\* the start of the curve and the cubic curve, or a line to the next waypoint
pairCommands(i, waypoints, j, cfg) ==
  IF isBendPair(waypoints, j)
  THEN LET made == pairCurve(i, waypoints, j, cfg)
       IN  << [op |-> "L", x32 |-> made.start.x32, y32 |-> made.start.y32],
              [op |-> "C", control1 |-> made.control1,
               control2 |-> made.control2, end |-> made.end] >>
  ELSE << [op |-> "L", x32 |-> 16 * waypoints[j + 1].twoX,
           y32 |-> 16 * waypoints[j + 1].twoY] >>

RECURSIVE segmentCurves(_, _, _, _)
\* the curves made for the waypoint pairs j, j + 1, ... of segment i
segmentCurves(i, waypoints, j, cfg) ==
  IF j > Len(waypoints) - 1
  THEN << >>
  ELSE (IF isBendPair(waypoints, j)
        THEN << pairCurve(i, waypoints, j, cfg) >>
        ELSE << >>)
       \o segmentCurves(i, waypoints, j + 1, cfg)

RECURSIVE segmentCommands(_, _, _, _)
segmentCommands(i, waypoints, j, cfg) ==
  IF j > Len(waypoints) - 1
  THEN << >>
  ELSE pairCommands(i, waypoints, j, cfg)
       \o segmentCommands(i, waypoints, j + 1, cfg)

RECURSIVE lineCurves(_, _, _)
\* the curves renderLineToCanvas and buildSVGPath make for the segments
\* i, i + 1, ... in the order of the calls
lineCurves(segs, i, cfg) ==
  IF i > Len(segs)
  THEN << >>
  ELSE segmentCurves(i, segs[i].waypoints, 1, cfg) \o lineCurves(segs, i + 1, cfg)

RECURSIVE lineCommands(_, _, _)
lineCommands(segs, i, cfg) ==
  IF i > Len(segs)
  THEN << >>
  ELSE (IF i = 1
        THEN << [op |-> "M", x32 |-> 16 * segs[i].waypoints[1].twoX,
                 y32 |-> 16 * segs[i].waypoints[1].twoY] >>
        ELSE << >>)
       \o segmentCommands(i, segs[i].waypoints, 1, cfg)
       \o lineCommands(segs, i + 1, cfg)

\* buildSVGPath(segments, config): the path as its commands M, L and C, in
\* 32nds
buildSVGPath(segs, cfg) == lineCommands(segs, 1, cfg)

\* renderLineToCanvas(ctx, segments, config, color): the same commands as
\* ctx.moveTo, ctx.lineTo and ctx.bezierCurveTo
renderLineToCanvas(segs, cfg) == lineCommands(segs, 1, cfg)

\* Largest line width tried, in quarters of the waypoints' unit.
MaxLineWidthQuarters == 2

\* ------------------------------------------------------------------------
\* The router on its own: one call of calculateSegmentPath on any two
\* stations and any entry direction.  The loop of renderLine over the
\* stations of a line, and the drawing, are RenderLineStep and RenderLineDraw.
\* ------------------------------------------------------------------------

NoStation == [vertexX |-> 0, vertexY |-> 0]

LineIdle == stations = <<>> /\ gridSize = 0 /\ segments = <<>>

SnapIdle == rawAngle = 0 /\ snappedAngle = Undefined

\* The value of `bendPosition` before calculateOptimalBendPosition has returned.
NoBendPosition == [made |-> FALSE, threw |-> FALSE, twoX |-> 0, twoY |-> 0]

BendIdle == rayAngle1 = EAST /\ rayAngle2 = EAST /\ bendPosition = NoBendPosition

\* MetroBuildingScreen after construction: no game state, mode NONE.
\* `this.gameState` before it is assigned
NoGameState == [undefined |-> TRUE]

BuildIdle == gameState = NoGameState /\ stationMode = "NONE"

\* The awaits of stopSimulation, in order: import("./MetroBuildingScreen"),
\* import("../getEngine"), engine().navigation.showScreen(...).
StopAwait == {"importScreen", "importEngine", "showScreen"}

NoStopCalls == [a \in StopAwait |-> 0]

\* MetroSimulationScreen after construction.
SimIdle ==
  /\ stopCalls = NoStopCalls
  /\ savedGameState = NoGameState
  /\ handedGameState = NoGameState
  /\ isRunning = FALSE
  /\ currentSpeed = "1x"
  /\ lastUpdateTime = 0
  /\ clock = 0
  /\ startTime = Null
  /\ firstUpdatePending = FALSE

\* No map: `currentMap` before generateMap has run.
NoMap == [none |-> TRUE]

\* No MapPickerScreen is constructed.
SeedIdle ==
  /\ currentSeed = 0
  /\ currentMap = NoMap
  /\ startCalls = 0
  /\ seedPresses = 0

\* No screen is constructed or shown while the router is called on its own.
ScreenIdle == BuildIdle /\ SimIdle /\ SeedIdle /\ currentScreen = "none"

Init ==
  /\ from \in Station
  /\ to \in Station
  /\ previousAngle \in Direction \cup {Null}
  /\ segment = NoSegment
  /\ pc = "ready"
  /\ NoCurve
  /\ config = NoConfig
  /\ LineIdle
  /\ SnapIdle
  /\ BendIdle
  /\ ScreenIdle

\* const segment = calculateSegmentPath(from, to, previousAngle)
CalculateSegmentPath ==
  /\ pc = "ready"
  /\ segment' = calculateSegmentPath(from, to, previousAngle)
  /\ pc' = "done"
  /\ UNCHANGED <<from, to, previousAngle, curveVars, lineVars, snapVars, bendVars, screenVars>>

Next == CalculateSegmentPath

Spec == Init /\ [][Next]_vars

\* ------------------------------------------------------------------------
\* MetroLineRenderer.renderLine: the segments of one line, routed in order
\* ------------------------------------------------------------------------

\* Largest vertex coordinate of the stations of a rendered line.
LineGridMax == 1

\* Largest number of stations of a rendered line.
MaxStations == 3

\* Largest gridSize (pixels per grid square) tried.
MaxGridSize == 2

LineStation == [vertexX : 0..LineGridMax, vertexY : 0..LineGridMax]

\* stations.map(s => ({x: s.x * gridSize, y: s.y * gridSize}))[i]
pixelStation(i) ==
  [vertexX |-> stations[i].vertexX * gridSize,
   vertexY |-> stations[i].vertexY * gridSize]

\* the loop body's call as it would be if previousAngle were never passed on
routeLineSegment_forgetsAngle(i, prev) ==
  calculateSegmentPath(pixelStation(i), pixelStation(i + 1), Null)

\* calculateSegmentPath(from, to, previousAngle) for from = pixelStations[i]
\* and to = pixelStations[i + 1] (i counted from 1)
routeLineSegment(i, prev) ==
  calculateSegmentPath(pixelStation(i), pixelStation(i + 1), prev)

\* the config the constructor of MetroLineRenderer builds: {lineWidth,
\* cornerRadius: lineWidth * 2, tightness: 0.5}; cornerRadius is read nowhere
rendererConfig(lineWidthQuarters) ==
  [lineWidthQuarters |-> lineWidthQuarters, tightnessQuarters |-> 2]

\* renderStations(ctx, pixelStations): one full circle of radius 6 around
\* every station, in 32nds
renderStations ==
  [i \in 1..Len(stations) |->
     [op |-> "arc", x32 |-> 32 * pixelStation(i).vertexX,
      y32 |-> 32 * pixelStation(i).vertexY, radius32 |-> 32 * 6]]

LineInit ==
  /\ stations \in UNION {[1..n -> LineStation] : n \in 0..MaxStations}
  /\ gridSize \in 1..MaxGridSize
  /\ segments = <<>>
  /\ previousAngle = Null
  /\ pc = "render"
  /\ from = NoStation /\ to = NoStation /\ segment = NoSegment
  /\ NoCurve
  /\ \E lineWidthQuarters \in 1..MaxLineWidthQuarters :
       config = rendererConfig(lineWidthQuarters)
  /\ SnapIdle
  /\ BendIdle
  /\ ScreenIdle

\* one turn of `for (let i = 0; i < pixelStations.length - 1; i++)`, entered
\* only past `if (stations.length < 2) return`
RenderLineStep ==
  /\ pc = "render"
  /\ Len(stations) >= 2
  /\ Len(segments) < Len(stations) - 1
  /\ LET routed == routeLineSegment(Len(segments) + 1, previousAngle)
     IN  IF routed.status = "ok"
         THEN /\ segments' = Append(segments, routed)
              /\ previousAngle' = routed.exitAngle
              /\ pc' = pc
         ELSE /\ pc' = "threw"
              /\ UNCHANGED <<segments, previousAngle>>
  /\ UNCHANGED <<from, to, segment, curveVars, stations, gridSize, snapVars, bendVars, screenVars>>

\* past the loop: renderLineToCanvas(ctx, segments, this.config, color), then
\* this.renderStations(ctx, pixelStations)
RenderLineDraw ==
  /\ pc = "render"
  /\ Len(stations) >= 2
  /\ Len(segments) = Len(stations) - 1
  /\ curves' = lineCurves(segments, 1, config)
  /\ path' = renderLineToCanvas(segments, config) \o renderStations
  /\ pc' = "rendered"
  /\ UNCHANGED <<from, to, previousAngle, segment, config, lineVars, snapVars,
                 bendVars, screenVars>>

LineNext == RenderLineStep \/ RenderLineDraw

SpecLine == LineInit /\ [][LineNext]_vars

\* ------------------------------------------------------------------------
\* The snap of a raw angle, whatever vector it came from
\* ------------------------------------------------------------------------

\* raw angles in (-180, 180] degrees, every 2.5 degrees, in millidegrees
RawAngles == {2500 * k : k \in -71..72}

SnapInit ==
  /\ rawAngle \in RawAngles
  /\ snappedAngle = Undefined
  /\ pc = "snap"
  /\ from = NoStation /\ to = NoStation /\ segment = NoSegment
  /\ previousAngle = Null
  /\ NoCurve /\ config = NoConfig
  /\ LineIdle
  /\ BendIdle
  /\ ScreenIdle

\* lines 80-94 of calculateSnapAngle, applied to rawAngle
SnapRawAngle ==
  /\ pc = "snap"
  /\ snappedAngle = Undefined
  /\ snappedAngle' = snapToIncrement(rawAngle)
  /\ UNCHANGED <<from, to, previousAngle, segment, pc, curveVars, lineVars, rawAngle, bendVars, screenVars>>

SnapNext == SnapRawAngle

SpecSnap == SnapInit /\ [][SnapNext]_vars

\* ------------------------------------------------------------------------
\* calculateOptimalBendPosition on any two stations and any two directions
\* ------------------------------------------------------------------------

BendInit ==
  /\ from \in Station
  /\ to \in Station
  /\ rayAngle1 \in Direction
  /\ rayAngle2 \in Direction
  /\ bendPosition = NoBendPosition
  /\ pc = "bend"
  /\ previousAngle = Null /\ segment = NoSegment
  /\ NoCurve /\ config = NoConfig
  /\ LineIdle
  /\ SnapIdle
  /\ ScreenIdle

\* bendPosition = calculateOptimalBendPosition(from, to, rayAngle1, rayAngle2)
CalculateOptimalBendPosition ==
  /\ pc = "bend"
  /\ ~bendPosition.made
  /\ LET point == calculateOptimalBendPosition(from, to, rayAngle1, rayAngle2)
     IN  bendPosition' = [made |-> TRUE, threw |-> point.threw,
                          twoX |-> point.twoX, twoY |-> point.twoY]
  /\ UNCHANGED <<from, to, previousAngle, segment, pc, curveVars, lineVars,
                 snapVars, rayAngle1, rayAngle2, screenVars>>

BendNext == CalculateOptimalBendPosition

SpecBend == BendInit /\ [][BendNext]_vars

\* ------------------------------------------------------------------------
\* MetroBuildingScreen: placing and removing stations
\* ------------------------------------------------------------------------

routerVars == <<from, to, previousAngle, segment, curveVars, lineVars,
                snapVars, bendVars>>

RouterIdle ==
  /\ from = NoStation /\ to = NoStation
  /\ previousAngle = Null /\ segment = NoSegment
  /\ NoCurve /\ config = NoConfig
  /\ LineIdle
  /\ SnapIdle
  /\ BendIdle

MIN_SEED == 0

MAX_SEED == 999

\* createGameState(seed, map); a MapGrid is kept as its seed, width and
\* height
createGameState(seed, map) == [seed |-> seed, map |-> map, stations |-> <<>>]

\* Largest width and height (in tiles) of the maps tried; the vertices of a
\* map are 0..width by 0..height.
MapWidthMax == 2

MapHeightMax == 1

TILE_SIZE == 16

\* Math.round(n / TILE_SIZE) for an integer n: halves round up
roundToVertex(n) == (2 * n + TILE_SIZE) \div (2 * TILE_SIZE)

\* Local positions of clicks along an axis of `size` tiles: around every
\* vertex, on it and at both edges of what rounds to it, one vertex beyond
\* the map on each side.
ClickPositions(size) ==
  {TILE_SIZE * k + off : k \in -1..(size + 1), off \in {-8, 0, 7}}

\* The identifier of the station of a vertex.  models/Station.ts is not among
\* the sources; its callers compare identifiers to "check if a station exists
\* at given vertex" (hasStationAt) and log "No station at this vertex" when
\* findIndex finds no equal identifier (handleRemoveStation), so the
\* identifier stands for the vertex: one identifier per vertex.
generateStationId(vertexX, vertexY) == <<vertexX, vertexY>>

\* gameState.stations.some((s) => s.id === stationId)
hasStationAt(vertexX, vertexY) ==
  LET stationId == generateStationId(vertexX, vertexY)
  IN  \E i \in 1..Len(gameState.stations) : gameState.stations[i].id = stationId

hasAdjacentStation(vertexX, vertexY) ==
  LET adjacentVertices == <<[x |-> vertexX - 1, y |-> vertexY],
                            [x |-> vertexX + 1, y |-> vertexY],
                            [x |-> vertexX, y |-> vertexY - 1],
                            [x |-> vertexX, y |-> vertexY + 1]>>
  IN  \E k \in 1..Len(adjacentVertices) :
         hasStationAt(adjacentVertices[k].x, adjacentVertices[k].y)

\* gameState.stations after addStation: the new station is pushed last
addStation(vertexX, vertexY) ==
  Append(gameState.stations,
         [id |-> generateStationId(vertexX, vertexY),
          vertexX |-> vertexX, vertexY |-> vertexY])

\* gameState.stations after handleAddStation
handleAddStation(vertexX, vertexY) ==
  IF hasStationAt(vertexX, vertexY) THEN gameState.stations
  ELSE IF hasAdjacentStation(vertexX, vertexY) THEN gameState.stations
  ELSE addStation(vertexX, vertexY)

\* findIndex((s) => s.id === stationId), counted from 1; 0 stands for -1
findStationIndex(stationId) ==
  LET found == {i \in 1..Len(gameState.stations) : gameState.stations[i].id = stationId}
  IN  IF found = {} THEN 0 ELSE CHOOSE i \in found : \A j \in found : i <= j

\* handleRemoveStation as it would be without its `index === -1` return:
\* splice(-1, 1) takes the last station out
handleRemoveStation_spliceUnguarded(vertexX, vertexY) ==
  LET index == findStationIndex(generateStationId(vertexX, vertexY))
      spliced == IF index = 0 THEN Len(gameState.stations) ELSE index
  IN  SubSeq(gameState.stations, 1, spliced - 1)
      \o SubSeq(gameState.stations, spliced + 1, Len(gameState.stations))

\* gameState.stations after handleRemoveStation: splice(index, 1)
handleRemoveStation(vertexX, vertexY) ==
  LET index == findStationIndex(generateStationId(vertexX, vertexY))
  IN  IF index = 0 THEN gameState.stations
      ELSE SubSeq(gameState.stations, 1, index - 1)
           \o SubSeq(gameState.stations, index + 1, Len(gameState.stations))

BuildInit ==
  /\ pc = "build"
  /\ BuildIdle
  /\ SimIdle
  /\ currentScreen = "MetroBuildingScreen"
  /\ SeedIdle
  /\ RouterIdle

\* gameState after setMap(map)
setMap(map) == createGameState(map.seed, map)

\* setMap(map) for a map of either end of the seed range
SetMap ==
  /\ pc = "build"
  /\ \E seed \in {MIN_SEED, MAX_SEED},
        width \in 1..MapWidthMax, height \in 1..MapHeightMax :
       gameState' = setMap([seed |-> seed, width |-> width, height |-> height])
  /\ UNCHANGED <<pc, routerVars, stationMode, simVars, pickerVars>>

\* toggleStationMode(mode)
ToggleStationMode ==
  /\ pc = "build"
  /\ \E mode \in {"ADDING", "REMOVING"} :
       stationMode' = IF stationMode = mode THEN "NONE" ELSE mode
  /\ UNCHANGED <<pc, routerVars, gameState, simVars, pickerVars>>

\* gameState after onMapClick for a click at the local position (x, y); a
\* click before setMap in a mode other than NONE throws on
\* `this.gameState.map` and changes nothing
onMapClick(x, y) ==
  LET vertexX == roundToVertex(x)
      vertexY == roundToVertex(y)
  IN  IF stationMode = "NONE" THEN gameState
      ELSE IF gameState = NoGameState THEN gameState
      ELSE IF vertexX < 0 \/ vertexX > gameState.map.width
              \/ vertexY < 0 \/ vertexY > gameState.map.height
           THEN gameState
      ELSE IF stationMode = "ADDING"
           THEN [gameState EXCEPT !.stations = handleAddStation(vertexX, vertexY)]
      ELSE IF stationMode = "REMOVING"
           THEN [gameState EXCEPT !.stations = handleRemoveStation(vertexX, vertexY)]
      ELSE gameState

\* a click on the map at the local position (x, y)
OnMapClick(x, y) ==
  /\ pc = "build"
  /\ gameState' = onMapClick(x, y)
  /\ UNCHANGED <<pc, routerVars, stationMode, simVars, pickerVars>>

MapClick ==
  \E x \in ClickPositions(MapWidthMax), y \in ClickPositions(MapHeightMax) :
     OnMapClick(x, y)

BuildNext == SetMap \/ ToggleStationMode \/ MapClick

SpecBuild == BuildInit /\ [][BuildNext]_vars

\* ------------------------------------------------------------------------
\* MapPickerScreen: the seed
\* ------------------------------------------------------------------------

\* Math.random() is taken as k / RandomGrain for k in 0..RandomGrain - 1,
\* a number in [0, 1).
RandomGrain == 4

\* adjustSeed as it would be if it stopped at the ends instead of wrapping
adjustSeed_clampsAtEnds(seed, delta) ==
  LET added == seed + delta
      capped == IF added > MAX_SEED THEN MAX_SEED ELSE added
  IN  IF capped < MIN_SEED THEN MIN_SEED ELSE capped

\* currentSeed after adjustSeed(delta)
adjustSeed(seed, delta) ==
  LET added == seed + delta
      wrappedHigh == IF added > MAX_SEED THEN MIN_SEED ELSE added
  IN  IF wrappedHigh < MIN_SEED THEN MAX_SEED ELSE wrappedHigh

\* Math.floor(Math.random() * (MAX_SEED + 1)) for Math.random() = k / RandomGrain
randomizeSeed(k) == (k * (MAX_SEED + 1)) \div RandomGrain

\* the size of a generated map
MAP_WIDTH == 48

MAP_HEIGHT == 32

\* new MapGenerator(seed).generate(): of the map only seed, width and height
\* are kept
generateMap(seed) == [seed |-> seed, width |-> MAP_WIDTH, height |-> MAP_HEIGHT]

\* Largest number of presses of -, + and Random tried.
MaxSeedPresses == 3

\* Largest number of startMetroBuilding calls that are waiting at their
\* await at the same time.
MaxPendingStarts == 1

\* MapPickerScreen after construction: seed 0, its map generated, shown
SeedInit ==
  /\ pc = "seed"
  /\ currentSeed = 0
  /\ currentMap = generateMap(0)
  /\ startCalls = 0
  /\ seedPresses = 0
  /\ BuildIdle
  /\ SimIdle
  /\ currentScreen = "MapPickerScreen"
  /\ RouterIdle

\* the decrement and increment buttons: adjustSeed(-1), adjustSeed(1)
AdjustSeed(delta) ==
  /\ pc = "seed"
  /\ seedPresses < MaxSeedPresses
  /\ seedPresses' = seedPresses + 1
  /\ currentSeed' = adjustSeed(currentSeed, delta)
  /\ UNCHANGED <<pc, routerVars, gameState, stationMode, simVars, currentMap,
                 startCalls>>

\* the random button
RandomizeSeed ==
  /\ pc = "seed"
  /\ seedPresses < MaxSeedPresses
  /\ seedPresses' = seedPresses + 1
  /\ \E k \in 0..(RandomGrain - 1) : currentSeed' = randomizeSeed(k)
  /\ UNCHANGED <<pc, routerVars, gameState, stationMode, simVars, currentMap,
                 startCalls>>

\* the Generate button: generateMap()
GenerateMap ==
  /\ pc = "seed"
  /\ currentMap' = generateMap(currentSeed)
  /\ UNCHANGED <<pc, routerVars, gameState, stationMode, simVars, currentSeed,
                 startCalls, seedPresses>>

\* the START button: startMetroBuilding up to its await; without a map it
\* returns at once
StartMetroBuilding ==
  /\ pc = "seed"
  /\ startCalls < MaxPendingStarts
  /\ startCalls' = IF currentMap = NoMap THEN startCalls ELSE startCalls + 1
  /\ UNCHANGED <<pc, routerVars, gameState, stationMode, simVars, currentSeed,
                 currentMap, seedPresses>>

\* showScreen(MetroBuildingScreen) has resolved: a new building screen is the
\* current screen and `screen.setMap(this.currentMap)` gives it the map the
\* picker holds now
StartMetroBuildingShownScreen ==
  /\ pc = "seed"
  /\ startCalls > 0
  /\ startCalls' = startCalls - 1
  /\ currentScreen' = "MetroBuildingScreen"
  /\ stationMode' = "NONE"
  /\ gameState' = setMap(currentMap)
  /\ UNCHANGED <<pc, routerVars, isRunning, currentSpeed, lastUpdateTime, clock,
                 startTime, firstUpdatePending, stopCalls, savedGameState,
                 handedGameState, currentSeed, currentMap, seedPresses>>

SeedNext ==
  \/ AdjustSeed(1) \/ AdjustSeed(-1) \/ RandomizeSeed \/ GenerateMap
  \/ StartMetroBuilding \/ StartMetroBuildingShownScreen

SpecSeed == SeedInit /\ [][SeedNext]_vars

\* ------------------------------------------------------------------------
\* MetroSimulationScreen: the simulation clock
\*
\* Times are in milliseconds.  `clock` is what performance.now() returns;
\* gameState.simulationTime is kept as its distance from the default start
\* new Date("2025-01-01T08:00:00").getTime(), so 0 is that instant.
\* ------------------------------------------------------------------------

\* Largest value of performance.now() tried.
MaxClock == 1

SPEED_1X == 5 * 60 * 1000

SPEED_2X == 10 * 60 * 1000

SPEED_4X == 20 * 60 * 1000

SPEED_12X == 60 * 60 * 1000

SimulationSpeed == {"1x", "2x", "4x", "12x"}

\* The simulationTime of the game states handed to setGameState: missing
\* (undefined, 0 or NaN), the default start, or a quarter of an hour later.
SimulationTimeInputs == {Undefined, 0, 900000}

\* the switch on currentSpeed
timeMultiplier(speed) ==
  CASE speed = "1x" -> SPEED_1X
    [] speed = "2x" -> SPEED_2X
    [] speed = "4x" -> SPEED_4X
    [] speed = "12x" -> SPEED_12X

\* deltaSeconds * timeMultiplier, with deltaSeconds =
\* (currentTime - lastUpdateTime) / 1000; the multipliers are multiples of
\* 1000
timeIncrement(currentTime, last, speed) ==
  ((currentTime - last) * timeMultiplier(speed)) \div 1000

\* startSimulation as it would be without `this.lastUpdateTime = performance.now()`
startSimulation_keepsLastUpdateTime(currentTime) ==
  [isRunning |-> TRUE, lastUpdateTime |-> lastUpdateTime]

\* the fields startSimulation assigns
startSimulation(currentTime) ==
  [isRunning |-> TRUE, lastUpdateTime |-> currentTime]

SimInit ==
  /\ pc = "sim"
  /\ SimIdle
  /\ currentScreen = "MetroSimulationScreen"
  /\ BuildIdle
  /\ SeedIdle
  /\ RouterIdle

\* setGameState(gameState): a missing or invalid simulationTime becomes the
\* default start
SetGameState ==
  /\ pc = "sim"
  /\ \E given \in SimulationTimeInputs :
       gameState' = [simulationTime |-> IF given = Undefined THEN 0 ELSE given]
  /\ UNCHANGED <<pc, routerVars, stationMode, simVars, pickerVars>>

StartSimulation ==
  /\ pc = "sim"
  /\ isRunning' = startSimulation(clock).isRunning
  /\ lastUpdateTime' = startSimulation(clock).lastUpdateTime
  /\ startTime' = clock
  /\ firstUpdatePending' = TRUE
  /\ UNCHANGED <<pc, routerVars, gameState, stationMode, currentSpeed, clock,
                 stopVars, pickerVars>>

\* Largest number of stopSimulation calls that are waiting at an await at
\* the same time.
MaxPendingStops == 1

PendingStops ==
  stopCalls["importScreen"] + stopCalls["importEngine"] + stopCalls["showScreen"]

\* one call moves from an await to the next one
moveStopCall(calls, await, next) ==
  [calls EXCEPT ![await] = @ - 1, ![next] = @ + 1]

\* stopSimulation up to its first await: isRunning = false,
\* saveGameState(this.gameState), then the import of the building screen is
\* awaited
StopSimulation ==
  /\ pc = "sim"
  /\ PendingStops < MaxPendingStops
  /\ isRunning' = FALSE
  /\ savedGameState' = gameState
  /\ stopCalls' = [stopCalls EXCEPT !["importScreen"] = @ + 1]
  /\ UNCHANGED <<pc, routerVars, gameState, stationMode, currentSpeed,
                 lastUpdateTime, clock, startTime, firstUpdatePending,
                 handedGameState, currentScreen, pickerVars>>

\* the building screen is imported; the import of the engine is awaited
StopSimulationImportedScreen ==
  /\ pc = "sim"
  /\ stopCalls["importScreen"] > 0
  /\ stopCalls' = moveStopCall(stopCalls, "importScreen", "importEngine")
  /\ UNCHANGED <<pc, routerVars, gameState, stationMode, isRunning, currentSpeed,
                 lastUpdateTime, clock, startTime, firstUpdatePending,
                 savedGameState, handedGameState, currentScreen, pickerVars>>

\* the engine is imported; showScreen(MetroBuildingScreen) is called and
\* awaited
StopSimulationImportedEngine ==
  /\ pc = "sim"
  /\ stopCalls["importEngine"] > 0
  /\ stopCalls' = moveStopCall(stopCalls, "importEngine", "showScreen")
  /\ UNCHANGED <<pc, routerVars, gameState, stationMode, isRunning, currentSpeed,
                 lastUpdateTime, clock, startTime, firstUpdatePending,
                 savedGameState, handedGameState, currentScreen, pickerVars>>

\* showScreen has resolved: the building screen is the current screen, and
\* `if (screen && screen.setGameState) screen.setGameState(this.gameState)`
\* hands it the game state the simulation screen holds now, when it has that
\* method
StopSimulationShownScreen ==
  /\ pc = "sim"
  /\ stopCalls["showScreen"] > 0
  /\ stopCalls' = [stopCalls EXCEPT !["showScreen"] = @ - 1]
  /\ currentScreen' = "MetroBuildingScreen"
  /\ \E hasSetGameState \in BOOLEAN :
       handedGameState' = IF hasSetGameState THEN gameState ELSE handedGameState
  /\ UNCHANGED <<pc, routerVars, gameState, stationMode, isRunning, currentSpeed,
                 lastUpdateTime, clock, startTime, firstUpdatePending,
                 savedGameState, pickerVars>>

OnDestroy ==
  /\ pc = "sim"
  /\ isRunning' = FALSE
  /\ UNCHANGED <<pc, routerVars, gameState, stationMode, currentSpeed,
                 lastUpdateTime, clock, startTime, firstUpdatePending, stopVars,
                 pickerVars>>

SetSpeed ==
  /\ pc = "sim"
  /\ \E speed \in SimulationSpeed : currentSpeed' = speed
  /\ UNCHANGED <<pc, routerVars, gameState, stationMode, isRunning,
                 lastUpdateTime, clock, startTime, firstUpdatePending, stopVars,
                 pickerVars>>

\* update(), which calls updateSimulation; without a game state the
\* statement `this.gameState.simulationTime += timeIncrement` throws, after
\* lastUpdateTime has been assigned
Update ==
  /\ pc = "sim"
  /\ IF ~isRunning
     THEN UNCHANGED <<gameState, lastUpdateTime, firstUpdatePending>>
     ELSE /\ lastUpdateTime' = clock
          /\ firstUpdatePending' = FALSE
          /\ IF gameState = NoGameState
             THEN UNCHANGED gameState
             ELSE gameState' = [gameState EXCEPT !.simulationTime =
                                  @ + timeIncrement(clock, lastUpdateTime, currentSpeed)]
  /\ UNCHANGED <<pc, routerVars, stationMode, isRunning, currentSpeed, clock,
                 startTime, stopVars, pickerVars>>

\* real time passes
Tick ==
  /\ pc = "sim"
  /\ clock < MaxClock
  /\ clock' = clock + 1
  /\ UNCHANGED <<pc, routerVars, gameState, stationMode, isRunning,
                 currentSpeed, lastUpdateTime, startTime, firstUpdatePending,
                 stopVars, pickerVars>>

SimNext ==
  \/ SetGameState \/ StartSimulation \/ StopSimulation
  \/ StopSimulationImportedScreen \/ StopSimulationImportedEngine
  \/ StopSimulationShownScreen \/ OnDestroy
  \/ SetSpeed \/ Update \/ Tick

SpecSim == SimInit /\ [][SimNext]_vars

\* ------------------------------------------------------------------------
\* Vocabulary of the properties
\* ------------------------------------------------------------------------

\* calculateSegmentPath has returned a LineSegment for (from, to, previousAngle)
Returned == pc = "done" /\ segment.status = "ok"

Distinct == from # to

DeltaX == to.vertexX - from.vertexX
DeltaY == to.vertexY - from.vertexY

\* vertical, horizontal or diagonal alignment
Aligned == DeltaX = 0 \/ DeltaY = 0 \/ Abs(DeltaX) = Abs(DeltaY)

Sign(n) == IF n > 0 THEN 1 ELSE IF n < 0 THEN -1 ELSE 0

Min(a, b) == IF a <= b THEN a ELSE b

Max(a, b) == IF a >= b THEN a ELSE b

AtStation(w, s) == w.twoX = 2 * s.vertexX /\ w.twoY = 2 * s.vertexY

\* (dx, dy) is k * (v.dx, v.dy) for some k > 0; components of v are -1, 0, 1
PositiveMultiple(dx, dy, v) ==
  LET k == Max(Abs(dx), Abs(dy))
  IN  k > 0 /\ dx = k * v.dx /\ dy = k * v.dy

\* outgoing - incoming in degrees, normalized to (-180, 180]
RECURSIVE NormalizeTurn(_)
NormalizeTurn(d) ==
  IF d > 180 THEN NormalizeTurn(d - 360)
  ELSE IF d <= -180 THEN NormalizeTurn(d + 360)
  ELSE d

TurnAngle(w) == NormalizeTurn(w.outgoingAngle - w.incomingAngle)

\* l > r * sqrt(2) for integers l, r
AboveRootTwoTimes(l, r) ==
  IF l >= 0
  THEN IF r <= 0 THEN l > 0 \/ r < 0 ELSE l * l > 2 * r * r
  ELSE r < 0 /\ l * l < 2 * r * r

\* Twice the length of the projection of (dx, dy) on direction d is
\* ProjRational + ProjRoot * sqrt(2).
Dot(dx, dy, d) == dx * DIRECTION_VECTORS[d].dx + dy * DIRECTION_VECTORS[d].dy

IsDiagonal(d) == DIRECTION_VECTORS[d].dx # 0 /\ DIRECTION_VECTORS[d].dy # 0

ProjRational(dx, dy, d) == IF IsDiagonal(d) THEN 0 ELSE 2 * Dot(dx, dy, d)

ProjRoot(dx, dy, d) == IF IsDiagonal(d) THEN Dot(dx, dy, d) ELSE 0

\* direction d makes a strictly smaller angle with (dx, dy) than direction e:
\* its cosine, hence its projection, is strictly larger
StrictlyCloser(dx, dy, d, e) ==
  AboveRootTwoTimes(ProjRational(dx, dy, d) - ProjRational(dx, dy, e),
                    ProjRoot(dx, dy, e) - ProjRoot(dx, dy, d))

\* the angle between (dx, dy) and direction d is at most 22.5 degrees:
\* cos^2 >= (2 + sqrt(2)) / 4 with a positive cosine
WithinHalfStep(dx, dy, d) ==
  LET normSq == dx * dx + dy * dy
      fourProjSq == IF IsDiagonal(d) THEN 2 * Dot(dx, dy, d) * Dot(dx, dy, d)
                                     ELSE 4 * Dot(dx, dy, d) * Dot(dx, dy, d)
      l == fourProjSq - 2 * normSq
  IN  Dot(dx, dy, d) > 0 /\ l > 0 /\ l * l >= 2 * normSq * normSq

\* ------------------------------------------------------------------------
\* C1..C10
\* ------------------------------------------------------------------------

\* C1: for every pair of distinct stations and every entry direction (null
\* included) calculateSegmentPath returns a LineSegment and raises nothing.
C1_RouteIsTotal == (pc = "done" /\ Distinct) => segment.status = "ok"

\* a parallel-ray case was routed: the entry is opposite to the direct angle
\* and the knee sits on the midpoint
C1_Witness ==
  /\ Returned /\ Distinct
  /\ previousAngle # Null
  /\ Abs(previousAngle - segment.exitAngle) = 180
  /\ Len(segment.waypoints) = 3
  /\ segment.waypoints[2].twoX = from.vertexX + to.vertexX
  /\ segment.waypoints[2].twoY = from.vertexY + to.vertexY

\* C2: with identical endpoints the call fails with DegenerateInputError and
\* returns no LineSegment (and no Direction), for every entry direction.
C2_DegenerateInputRaises ==
  (pc = "done" /\ from = to) => segment.status = "DegenerateInputError"

\* C3: in every LineSegment returned for distinct stations each pair of
\* consecutive waypoints (p, q) has p.outgoingAngle = q.incomingAngle and
\* q - p a strictly positive multiple of that direction's vector.
C3_PiecesRunAlongDirections ==
  (Returned /\ Distinct) =>
     \A i \in 1..(Len(segment.waypoints) - 1) :
        LET p == segment.waypoints[i]
            q == segment.waypoints[i + 1]
        IN  /\ p.outgoingAngle = q.incomingAngle
            /\ p.outgoingAngle \in Direction
            /\ PositiveMultiple(q.twoX - p.twoX, q.twoY - p.twoY,
                                DIRECTION_VECTORS[p.outgoingAngle])

\* C4: for distinct stations the snapped direction (the segment's exitAngle)
\* is a Direction that no other Direction beats in angular distance to
\* to - from, and it lies within 22.5 degrees of that vector.
C4_SnapIsNearest ==
  (pc = "done" /\ Distinct) =>
     /\ segment.exitAngle \in Direction
     /\ segment.exitAngle = calculateSnapAngle(from, to)
     /\ \A d \in Direction : ~StrictlyCloser(DeltaX, DeltaY, d, segment.exitAngle)
     /\ WithinHalfStep(DeltaX, DeltaY, segment.exitAngle)

\* a vector in the third quadrant, where the raw angle is negative and the
\* nearest direction is found only through the wraparound
C4_Witness ==
  /\ Returned
  /\ DeltaX = -2 /\ DeltaY = -1
  /\ segment.exitAngle = NORTHWEST

\* C5: the waypoints start with a STATION at from that carries only an
\* outgoing direction, end with a STATION at to that carries only an incoming
\* direction, and every waypoint between them is a BEND carrying both.
C5_WaypointShape ==
  Returned =>
     LET w == segment.waypoints
         n == Len(segment.waypoints)
     IN  /\ n >= 2
         /\ w[1].type = "STATION" /\ AtStation(w[1], from)
         /\ w[1].incomingAngle = Undefined /\ w[1].outgoingAngle \in Direction
         /\ w[n].type = "STATION" /\ AtStation(w[n], to)
         /\ w[n].incomingAngle \in Direction /\ w[n].outgoingAngle = Undefined
         /\ \A i \in 2..(n - 1) :
              /\ w[i].type = "BEND"
              /\ w[i].incomingAngle \in Direction
              /\ w[i].outgoingAngle \in Direction

C5_Witness ==
  /\ Returned /\ Distinct
  /\ Len(segment.waypoints) = 3
  /\ segment.waypoints[2].type = "BEND"
  /\ ~AtStation(segment.waypoints[2], from)
  /\ ~AtStation(segment.waypoints[2], to)

\* C6: when the resolved entryAngle equals directAngle = snap(from, to) the
\* result is exactly from (STATION, outgoing = entryAngle) and to (STATION,
\* incoming = directAngle), without a BEND.
C6_StraightCase ==
  (Returned /\ segment.entryAngle = calculateSnapAngle(from, to)) =>
     LET w == segment.waypoints
     IN  /\ Len(w) = 2
         /\ w[1].type = "STATION" /\ AtStation(w[1], from)
         /\ w[1].outgoingAngle = segment.entryAngle
         /\ w[2].type = "STATION" /\ AtStation(w[2], to)
         /\ w[2].incomingAngle = calculateSnapAngle(from, to)

\* a forced entry that happens to equal the direct angle
C6_Witness ==
  /\ Returned /\ Distinct /\ ~Aligned
  /\ previousAngle # Null
  /\ previousAngle = calculateSnapAngle(from, to)
  /\ Len(segment.waypoints) = 2

\* C7: distinct stations that are vertically, horizontally or diagonally
\* aligned, routed with entryDirection = null, give exactly 2 waypoints and
\* no BEND.
C7_AlignedIsStraight ==
  (Returned /\ Distinct /\ Aligned /\ previousAngle = Null) =>
     /\ Len(segment.waypoints) = 2
     /\ \A i \in 1..Len(segment.waypoints) : segment.waypoints[i].type # "BEND"

C7_Witness ==
  /\ Returned /\ previousAngle = Null
  /\ DeltaX = 2 /\ DeltaY = -2
  /\ segment.exitAngle = NORTHEAST
  /\ Len(segment.waypoints) = 2

\* C8: stations that are not aligned, routed with no entry constraint, give
\* start -> knee -> end with one BEND: min(|dx|, |dy|) units diagonally from
\* the start, then straight to the end.
C8_UnalignedGetsKnee ==
  (Returned /\ ~Aligned /\ previousAngle = Null) =>
     LET w == segment.waypoints
         m == Min(Abs(DeltaX), Abs(DeltaY))
     IN  /\ Len(w) = 3
         /\ w[2].type = "BEND"
         /\ w[2].twoX = 2 * (from.vertexX + m * Sign(DeltaX))
         /\ w[2].twoY = 2 * (from.vertexY + m * Sign(DeltaY))
         /\ w[2].incomingAngle \in Direction
         /\ DIRECTION_VECTORS[w[2].incomingAngle]
              = [dx |-> Sign(DeltaX), dy |-> Sign(DeltaY)]
         /\ w[2].outgoingAngle \in Direction
         /\ PositiveMultiple(w[3].twoX - w[2].twoX, w[3].twoY - w[2].twoY,
                             DIRECTION_VECTORS[w[2].outgoingAngle])
         /\ Abs(TurnAngle(w[2])) = 45

\* C9: a non-null entryDirection e that differs from directAngle is kept:
\* entryAngle = e and the waypoints are from (STATION, outgoing e), one knee
\* (BEND, incoming e, outgoing directAngle), to (STATION, incoming directAngle).
C9_ForcedEntryKept ==
  (Returned /\ previousAngle # Null
            /\ previousAngle # calculateSnapAngle(from, to)) =>
     LET w == segment.waypoints
         directAngle == calculateSnapAngle(from, to)
     IN  /\ segment.entryAngle = previousAngle
         /\ Len(w) = 3
         /\ w[1].type = "STATION" /\ AtStation(w[1], from)
         /\ w[1].outgoingAngle = previousAngle
         /\ w[2].type = "BEND"
         /\ w[2].incomingAngle = previousAngle
         /\ w[2].outgoingAngle = directAngle
         /\ w[3].type = "STATION" /\ AtStation(w[3], to)
         /\ w[3].incomingAngle = directAngle

\* (0,0) -> (3,2) entered EAST: the knee is (1,0), EAST then SOUTHEAST
C9_Witness ==
  /\ Returned
  /\ from = [vertexX |-> 0, vertexY |-> 0]
  /\ to = [vertexX |-> 3, vertexY |-> 2]
  /\ previousAngle = EAST
  /\ Len(segment.waypoints) = 3
  /\ segment.waypoints[2].twoX = 2 /\ segment.waypoints[2].twoY = 0
  /\ segment.waypoints[2].outgoingAngle = SOUTHEAST

\* C10: in every result with a single knee, for distinct stations, the
\* knee's turning angle is exactly +45, -45, +90 or -90 degrees.
C10_KneeTurnBound ==
  (Returned /\ Distinct /\ Len(segment.waypoints) = 3) =>
     TurnAngle(segment.waypoints[2]) \in {45, -45, 90, -90}

\* ------------------------------------------------------------------------
\* C11..C20
\* ------------------------------------------------------------------------

BendCount(w) == Cardinality({i \in 1..Len(w) : w[i].type = "BEND"})

\* the z component of (ax, ay) x (bx, by): zero when the two are parallel
Cross(ax, ay, bx, by) == ax * by - ay * bx

\* C11: when the turn from entryAngle to directAngle exceeds 90 degrees (135
\* or 180), the router emits ceil(|turn| / 90) = 2 BEND waypoints.
C11_MultiKnee ==
  (Returned /\ Distinct
     /\ Abs(NormalizeTurn(segment.exitAngle - segment.entryAngle)) > 90) =>
     BendCount(segment.waypoints) = 2

\* C12: every BEND waypoint emitted has an incoming direction different from
\* its outgoing direction.
C12_BendChangesDirection ==
  Returned =>
     \A i \in 1..Len(segment.waypoints) :
        segment.waypoints[i].type = "BEND" =>
           segment.waypoints[i].incomingAngle # segment.waypoints[i].outgoingAngle

\* a knee that reverses a WEST entry into an EAST exit
C12_Witness ==
  /\ Returned /\ Distinct
  /\ Len(segment.waypoints) = 3
  /\ segment.waypoints[2].type = "BEND"
  /\ segment.waypoints[2].incomingAngle = WEST
  /\ segment.waypoints[2].outgoingAngle = EAST

\* C13: the returned exitAngle is snap(from, to) whatever the entry direction,
\* and it is the incomingAngle of the last waypoint and the outgoingAngle of
\* the one before it.
C13_ExitIsDirectAngle ==
  Returned =>
     LET w == segment.waypoints
         n == Len(segment.waypoints)
     IN  /\ segment.exitAngle = calculateSnapAngle(from, to)
         /\ segment.exitAngle = w[n].incomingAngle
         /\ segment.exitAngle = w[n - 1].outgoingAngle

\* a forced NORTH entry on a pair whose direct angle is SOUTH
C13_Witness ==
  /\ Returned
  /\ DeltaX = -1 /\ DeltaY = 3
  /\ previousAngle = NORTH
  /\ segment.entryAngle = NORTH
  /\ segment.exitAngle = SOUTH
  /\ Len(segment.waypoints) = 3

\* C15: for distinct stations no BEND waypoint has the coordinates of from or
\* of to.
C15_BendBetweenStations ==
  (Returned /\ Distinct) =>
     \A i \in 1..Len(segment.waypoints) :
        segment.waypoints[i].type = "BEND" =>
           /\ ~AtStation(segment.waypoints[i], from)
           /\ ~AtStation(segment.waypoints[i], to)

\* a knee one unit off `from`, placed by the intersection
C15_Witness ==
  /\ Returned
  /\ DeltaX = 2 /\ DeltaY = 1
  /\ previousAngle = EAST
  /\ Len(segment.waypoints) = 3
  /\ segment.waypoints[2].twoX = 2 * from.vertexX + 2
  /\ segment.waypoints[2].twoY = 2 * from.vertexY

\* The point at parameter twoT / 2 of the ray from `from` along entryAngle is
\* an acceptable intersection: the rays are not parallel, the point lies on
\* the line through `to` along the exit direction, and the path through it is
\* shorter than twice the direct distance.
OnBothRays(twoT) ==
  LET e == DIRECTION_VECTORS[segment.entryAngle]
      d == DIRECTION_VECTORS[segment.exitAngle]
      px == 2 * from.vertexX + twoT * e.dx
      py == 2 * from.vertexY + twoT * e.dy
  IN  /\ Cross(e.dx, e.dy, d.dx, d.dy) # 0
      /\ Cross(2 * to.vertexX - px, 2 * to.vertexY - py, d.dx, d.dy) = 0
      /\ bendIsReasonable(from, to, px, py)

\* C20: when entryAngle # directAngle and no fallback applies, the knee is
\* the intersection of the line through from along entryAngle with the line
\* through to along directAngle, so knee - from is parallel to vec(entryAngle)
\* and to - knee to vec(directAngle); (0,0) -> (3,2) entered EAST has its knee
\* at (1,0) and (0,0) -> (4,2) entered EAST at (2,0).
C20_KneeIsIntersection ==
  (Returned /\ Distinct /\ Len(segment.waypoints) = 3) =>
     LET knee == segment.waypoints[2]
         e == DIRECTION_VECTORS[segment.entryAngle]
         d == DIRECTION_VECTORS[segment.exitAngle]
     IN  /\ \A twoT \in 1..(6 * GridMax) :
              OnBothRays(twoT) =>
                 /\ knee.twoX = 2 * from.vertexX + twoT * e.dx
                 /\ knee.twoY = 2 * from.vertexY + twoT * e.dy
                 /\ Cross(knee.twoX - 2 * from.vertexX, knee.twoY - 2 * from.vertexY,
                          e.dx, e.dy) = 0
                 /\ Cross(2 * to.vertexX - knee.twoX, 2 * to.vertexY - knee.twoY,
                          d.dx, d.dy) = 0
         /\ (from = [vertexX |-> 0, vertexY |-> 0] /\ previousAngle = EAST
               /\ to = [vertexX |-> 3, vertexY |-> 2])
               => (knee.twoX = 2 /\ knee.twoY = 0)
         /\ (from = [vertexX |-> 0, vertexY |-> 0] /\ previousAngle = EAST
               /\ to = [vertexX |-> 4, vertexY |-> 2])
               => (knee.twoX = 4 /\ knee.twoY = 0)

\* (0,0) -> (4,2) entered EAST: knee (2,0), EAST then SOUTHEAST
C20_Witness ==
  /\ Returned
  /\ from = [vertexX |-> 0, vertexY |-> 0]
  /\ to = [vertexX |-> 4, vertexY |-> 2]
  /\ previousAngle = EAST
  /\ OnBothRays(4)
  /\ segment.waypoints[2].twoX = 4 /\ segment.waypoints[2].twoY = 0
  /\ segment.waypoints[2].incomingAngle = EAST
  /\ segment.waypoints[2].outgoingAngle = SOUTHEAST

\* ------------------------------------------------------------------------
\* Fillets: C16, C17, C18
\* ------------------------------------------------------------------------

\* renderLine has drawn the routed segments of the line
CurveMade == pc = "rendered"

\* the curves drawn for the BENDs of the line, by their place in `curves`
DrawnCurve == 1..Len(curves)

\* the waypoints of the segment a drawn curve belongs to
KneeWaypoints(k) == segments[curves[k].segment].waypoints

\* the BEND a drawn curve rounds
Knee(k) == KneeWaypoints(k)[curves[k].bend]

\* the segment of a drawn curve joins two distinct stations
DistinctEnds(k) ==
  LET first == KneeWaypoints(k)[1]
      last == KneeWaypoints(k)[Len(KneeWaypoints(k))]
  IN  first.twoX # last.twoX \/ first.twoY # last.twoY

\* squared length, in 32nds, of the path piece between waypoints i and i + 1
\* of the segment of curve k
PieceLengthSq32(k, i) ==
  LET p == KneeWaypoints(k)[i]
      q == KneeWaypoints(k)[i + 1]
  IN  256 * ((q.twoX - p.twoX) * (q.twoX - p.twoX)
             + (q.twoY - p.twoY) * (q.twoY - p.twoY))

\* (dx, dy) is k * (v.dx, v.dy) for some k >= 0
NonNegativeMultiple(dx, dy, v) ==
  LET k == Max(Abs(dx), Abs(dy))
  IN  dx = k * v.dx /\ dy = k * v.dy

\* point b lies on the segment from a to c, which runs along v
BetweenAlong(a, b, c, v) ==
  /\ NonNegativeMultiple(b.x32 - a.x32, b.y32 - a.y32, v)
  /\ NonNegativeMultiple(c.x32 - b.x32, c.y32 - b.y32, v)

KneePoint(k) == Point32(16 * Knee(k).twoX, 16 * Knee(k).twoY)

\* C16: the effective radius of every fillet of a routed segment is at most
\* half the length of each of the two path pieces adjoining the knee.
C16_RadiusClamped ==
  CurveMade =>
     \A k \in DrawnCurve :
        DistinctEnds(k) =>
           /\ 4 * curves[k].radius32 * curves[k].radius32
                 <= PieceLengthSq32(k, curves[k].bend - 1)
           /\ 4 * curves[k].radius32 * curves[k].radius32
                 <= PieceLengthSq32(k, curves[k].bend)

\* C17: for every fillet, the start trim point to the knee runs along the
\* knee's incoming direction and the knee to the end trim point along its
\* outgoing direction (each a non-negative multiple); with tightness in
\* [0, 1] control1 lies on the incoming line between the start trim point
\* and the knee and control2 on the outgoing line between the knee and the
\* end trim point.
C17_FilletTangency ==
  CurveMade =>
     \A k \in DrawnCurve :
        LET inDir == DIRECTION_VECTORS[Knee(k).incomingAngle]
            outDir == DIRECTION_VECTORS[Knee(k).outgoingAngle]
        IN  /\ NonNegativeMultiple(KneePoint(k).x32 - curves[k].start.x32,
                                   KneePoint(k).y32 - curves[k].start.y32, inDir)
            /\ NonNegativeMultiple(curves[k].end.x32 - KneePoint(k).x32,
                                   curves[k].end.y32 - KneePoint(k).y32, outDir)
            /\ BetweenAlong(curves[k].start, curves[k].control1, KneePoint(k), inDir)
            /\ BetweenAlong(KneePoint(k), curves[k].control2, curves[k].end, outDir)

\* C18: the effective radius is radius * (1 + (|turn| / 90) * 0.5) with
\* radius = lineWidth * 2 and turn = outgoing - incoming normalized to
\* (-180, 180]: in 32nds, 16 * lineWidthQuarters * (180 + |turn|) / 180.
C18_RadiusFollowsTurn ==
  CurveMade =>
     \A k \in DrawnCurve :
        DistinctEnds(k) =>
           curves[k].radius32 * 180 =
              16 * config.lineWidthQuarters * (180 + Abs(TurnAngle(Knee(k))))

\* ------------------------------------------------------------------------
\* C14 (a line routed in order), C19 (ties of the snap)
\* ------------------------------------------------------------------------

\* C14: with null passed for the first segment and each exitAngle passed as
\* the next entryDirection, the incoming direction on the last waypoint of
\* every arriving segment equals the outgoing direction on the first waypoint
\* of the departing one, and the first segment has no BEND.
C14_LineContinuity ==
  pc = "render" =>
     /\ Len(segments) >= 1 => BendCount(segments[1].waypoints) = 0
     /\ \A k \in 1..(Len(segments) - 1) :
          LET arriving == segments[k].waypoints
              departing == segments[k + 1].waypoints
          IN  arriving[Len(arriving)].incomingAngle = departing[1].outgoingAngle

\* a line of three distinct stations whose second segment needs a knee
C14_Witness ==
  /\ pc = "render"
  /\ Len(stations) = 3 /\ Len(segments) = 2
  /\ stations[1] # stations[2] /\ stations[2] # stations[3]
  /\ gridSize = 2
  /\ BendCount(segments[2].waypoints) = 1
  /\ segments[1].exitAngle = SOUTHEAST
  /\ segments[2].entryAngle = SOUTHEAST
  /\ segments[2].exitAngle = NORTH

\* C19: a raw angle exactly 22.5 degrees from two neighbouring directions
\* snaps to the lower-valued of the two, and to 0 for the pair 315 / 0.
C19_TieSnapsLow ==
  (pc = "snap" /\ snappedAngle # Undefined) =>
     \A k \in 0..7 :
        ((rawAngle - (45000 * k + 22500)) % 360000 = 0) =>
           snappedAngle = (IF k = 7 THEN 0 ELSE 45 * k)

\* the tie between 315 and 0, and a tie reached through the wraparound
C19_Witness ==
  /\ pc = "snap"
  /\ rawAngle = -22500
  /\ snappedAngle = 0

\* ------------------------------------------------------------------------
\* C21..C27: the fallbacks of the knee, the exactness of the snap, the trim
\* ------------------------------------------------------------------------

\* The parameter t1 of the intersection along the ray from `from` is
\* T1Numerator / T1Denominator, for the entry and exit directions of the
\* returned segment.
T1Denominator ==
  Cross(DIRECTION_VECTORS[segment.entryAngle].dx, DIRECTION_VECTORS[segment.entryAngle].dy,
        DIRECTION_VECTORS[segment.exitAngle].dx, DIRECTION_VECTORS[segment.exitAngle].dy)

T1Numerator ==
  Cross(DeltaX, DeltaY,
        DIRECTION_VECTORS[segment.exitAngle].dx, DIRECTION_VECTORS[segment.exitAngle].dy)

RaysParallel == T1Denominator = 0

T1BelowHalf ==
  IF T1Denominator > 0 THEN 2 * T1Numerator < T1Denominator
                       ELSE 2 * T1Numerator > T1Denominator

\* the segment has one BEND, at the midpoint of from and to, turning from
\* entryAngle to snap(from, to)
KneeAtMidpoint ==
  /\ Len(segment.waypoints) = 3
  /\ segment.waypoints[2].type = "BEND"
  /\ segment.waypoints[2].twoX = from.vertexX + to.vertexX
  /\ segment.waypoints[2].twoY = from.vertexY + to.vertexY
  /\ segment.waypoints[2].incomingAngle = segment.entryAngle
  /\ segment.waypoints[2].outgoingAngle = calculateSnapAngle(from, to)

\* C21: when t1 is below 0.5 the intersection is discarded and the knee is
\* the midpoint of from and to, the BEND still recording incoming = entryAngle
\* and outgoing = directAngle.
C21_TooCloseFallsBackToMidpoint ==
  (Returned /\ segment.entryAngle # segment.exitAngle
     /\ ~RaysParallel /\ T1BelowHalf) => KneeAtMidpoint

\* (0,0) -> (3,1) entered NORTH: the lines meet behind `from`, at t1 = -1
C21_Witness ==
  /\ Returned
  /\ DeltaX = 3 /\ DeltaY = 1
  /\ previousAngle = NORTH
  /\ segment.exitAngle = EAST
  /\ ~RaysParallel /\ T1BelowHalf
  /\ 2 * T1Numerator = -2 * T1Denominator
  /\ KneeAtMidpoint

\* C22: when the entry ray and the backward exit ray are parallel, which for
\* distinct directions is exactly when entryAngle and directAngle are 180
\* degrees apart, the knee is the midpoint of from and to and nothing is
\* raised.
C22_ParallelFallsBackToMidpoint ==
  (pc = "done" /\ previousAngle # Null
     /\ previousAngle # calculateSnapAngle(from, to)) =>
     /\ segment.status = "ok"
     /\ RaysParallel <=> Abs(segment.exitAngle - segment.entryAngle) = 180
     /\ RaysParallel => KneeAtMidpoint

\* (1,0) -> (4,1) entered WEST against a direct angle of EAST
C22_Witness ==
  /\ Returned
  /\ DeltaX = 3 /\ DeltaY = 1
  /\ previousAngle = WEST
  /\ segment.exitAngle = EAST
  /\ RaysParallel
  /\ KneeAtMidpoint

\* For the call of SpecBend: the rays from `from` along rayAngle1 and back
\* from `to` along rayAngle2 are not parallel and meet at t1 >= 0.5; the
\* candidate is then the point from + (CandidateTwoT / 2) * vec(rayAngle1).
CandidateDenominator ==
  Cross(DIRECTION_VECTORS[rayAngle1].dx, DIRECTION_VECTORS[rayAngle1].dy,
        DIRECTION_VECTORS[rayAngle2].dx, DIRECTION_VECTORS[rayAngle2].dy)

CandidateNumerator ==
  Cross(DeltaX, DeltaY,
        DIRECTION_VECTORS[rayAngle2].dx, DIRECTION_VECTORS[rayAngle2].dy)

CandidateTwoT ==
  (2 * CandidateNumerator * Sign(CandidateDenominator)) \div Abs(CandidateDenominator)

CandidateExists == CandidateDenominator # 0 /\ CandidateTwoT >= 1

CandidateTwoX == 2 * from.vertexX + CandidateTwoT * DIRECTION_VECTORS[rayAngle1].dx

CandidateTwoY == 2 * from.vertexY + CandidateTwoT * DIRECTION_VECTORS[rayAngle1].dy

SquaredDistance(ax, ay, bx, by) == (ax - bx) * (ax - bx) + (ay - by) * (ay - by)

\* sqrt(a) + sqrt(b) > 2 * sqrt(c) for naturals a, b, c
RootSumAboveTwice(a, b, c) ==
  LET r == 4 * c - a - b
  IN  r < 0 \/ 4 * a * b > r * r

\* dist(from, p) + dist(p, to) > 2 * dist(from, to) for the doubled point p
PathExceedsTwiceDirect(twoX, twoY) ==
  RootSumAboveTwice(
    SquaredDistance(twoX, twoY, 2 * from.vertexX, 2 * from.vertexY),
    SquaredDistance(twoX, twoY, 2 * to.vertexX, 2 * to.vertexY),
    SquaredDistance(2 * to.vertexX, 2 * to.vertexY, 2 * from.vertexX, 2 * from.vertexY))

BendAtMidpoint ==
  /\ bendPosition.twoX = from.vertexX + to.vertexX
  /\ bendPosition.twoY = from.vertexY + to.vertexY

BendAtCandidate ==
  /\ bendPosition.twoX = CandidateTwoX
  /\ bendPosition.twoY = CandidateTwoY

\* C23: a candidate intersection whose path from -> knee -> to is longer than
\* twice the direct distance is discarded for the midpoint, and every
\* intersection that is returned has a path of at most twice the direct
\* distance.
C23_DoublingBackFallsBackToMidpoint ==
  (pc = "bend" /\ bendPosition.made /\ CandidateExists) =>
     /\ ~bendPosition.threw
     /\ PathExceedsTwiceDirect(CandidateTwoX, CandidateTwoY) => BendAtMidpoint
     /\ BendAtCandidate => ~PathExceedsTwiceDirect(CandidateTwoX, CandidateTwoY)

\* (0,1) -> (1,1) with rays NORTH and SOUTHEAST: the candidate (0,0) makes a
\* path of 1 + sqrt(2), more than twice the direct distance 1
C23_Witness ==
  /\ pc = "bend" /\ bendPosition.made
  /\ from = [vertexX |-> 0, vertexY |-> 1]
  /\ to = [vertexX |-> 1, vertexY |-> 1]
  /\ rayAngle1 = NORTH /\ rayAngle2 = SOUTHEAST
  /\ CandidateExists
  /\ CandidateTwoX = 0 /\ CandidateTwoY = 0
  /\ PathExceedsTwiceDirect(CandidateTwoX, CandidateTwoY)
  /\ BendAtMidpoint /\ ~BendAtCandidate

\* For the returned segment: the point at t1 on the ray from `from` along
\* entryAngle, where that ray meets the line through `to` along exitAngle.
KneeCandidateTwoT ==
  (2 * T1Numerator * Sign(T1Denominator)) \div Abs(T1Denominator)

KneeCandidateTwoX ==
  2 * from.vertexX + KneeCandidateTwoT * DIRECTION_VECTORS[segment.entryAngle].dx

KneeCandidateTwoY ==
  2 * from.vertexY + KneeCandidateTwoT * DIRECTION_VECTORS[segment.entryAngle].dy

\* the intersection exists with t1 >= 0.5
IntersectionAhead == ~RaysParallel /\ ~T1BelowHalf

\* sqrt(a) + sqrt(b) < 2 * sqrt(c) for naturals a, b, c
PathBelowTwiceDirect(twoX, twoY) ==
  LET a == SquaredDistance(twoX, twoY, 2 * from.vertexX, 2 * from.vertexY)
      b == SquaredDistance(twoX, twoY, 2 * to.vertexX, 2 * to.vertexY)
      c == SquaredDistance(2 * to.vertexX, 2 * to.vertexY,
                           2 * from.vertexX, 2 * from.vertexY)
  IN  4 * c - a - b > 0 /\ 4 * a * b < (4 * c - a - b) * (4 * c - a - b)

KneeAtCandidate ==
  /\ Len(segment.waypoints) = 3
  /\ segment.waypoints[2].twoX = KneeCandidateTwoX
  /\ segment.waypoints[2].twoY = KneeCandidateTwoY

\* C24: for distinct stations and every entry direction, whenever the ray
\* intersection exists with t1 >= 0.5 the length test passes and the knee is
\* that intersection, so a knee elsewhere (the midpoint) comes only from the
\* parallel case or the t1 < 0.5 case.
C24_DoublingBackUnreachable ==
  (Returned /\ Distinct /\ segment.entryAngle # segment.exitAngle) =>
     /\ IntersectionAhead =>
          /\ PathBelowTwiceDirect(KneeCandidateTwoX, KneeCandidateTwoY)
          /\ KneeAtCandidate
     /\ (RaysParallel \/ T1BelowHalf) => KneeAtMidpoint

\* (1,0) -> (4,1) entered SOUTHWEST, a turn of 135 degrees: the knee (0,1)
\* lies behind `from` on the x axis and is still accepted
C24_Witness ==
  /\ Returned
  /\ from = [vertexX |-> 1, vertexY |-> 0]
  /\ to = [vertexX |-> 4, vertexY |-> 1]
  /\ previousAngle = SOUTHWEST
  /\ segment.exitAngle = EAST
  /\ IntersectionAhead
  /\ KneeCandidateTwoX = 0 /\ KneeCandidateTwoY = 2
  /\ KneeAtCandidate
  /\ ~KneeAtMidpoint

\* C25: whenever an intersection knee is accepted for distinct stations,
\* to - knee is a strictly positive multiple of vec(directAngle): the knee is
\* on the backward ray from `to`, never at `to` or beyond it.
C25_KneeOnBackwardRay ==
  (Returned /\ Distinct /\ segment.entryAngle # segment.exitAngle
     /\ IntersectionAhead /\ KneeAtCandidate) =>
     PositiveMultiple(2 * to.vertexX - segment.waypoints[2].twoX,
                      2 * to.vertexY - segment.waypoints[2].twoY,
                      DIRECTION_VECTORS[segment.exitAngle])

\* (1,0) -> (2,2) entered SOUTHWEST: knee (0.5, 0.5), then 1.5 steps of
\* SOUTHEAST to reach `to`
C25_Witness ==
  /\ Returned
  /\ from = [vertexX |-> 1, vertexY |-> 0]
  /\ to = [vertexX |-> 2, vertexY |-> 2]
  /\ previousAngle = SOUTHWEST
  /\ segment.exitAngle = SOUTHEAST
  /\ IntersectionAhead /\ KneeAtCandidate
  /\ segment.waypoints[2].twoX = 1 /\ segment.waypoints[2].twoY = 1
  /\ 2 * to.vertexX - segment.waypoints[2].twoX = 3
  /\ 2 * to.vertexY - segment.waypoints[2].twoY = 3

\* C26: for distinct, exactly aligned points the snapped direction is exact:
\* to - from is a positive integer multiple of DIRECTION_VECTORS[snap(from,
\* to)], and the unconstrained route labels both waypoints with it;
\* (0,0) -> (0,5) snaps to SOUTH.
C26_AlignedSnapIsExact ==
  (Returned /\ Distinct /\ Aligned) =>
     /\ segment.exitAngle \in Direction
     /\ PositiveMultiple(DeltaX, DeltaY, DIRECTION_VECTORS[segment.exitAngle])
     /\ previousAngle = Null =>
          /\ Len(segment.waypoints) = 2
          /\ segment.waypoints[1].outgoingAngle = segment.exitAngle
          /\ segment.waypoints[2].incomingAngle = segment.exitAngle
     /\ (from.vertexX = 0 /\ from.vertexY = 0 /\ to.vertexX = 0 /\ to.vertexY > 0)
          => segment.exitAngle = SOUTH

\* (3,3) -> (0,0), unconstrained: three steps of NORTHWEST
C26_Witness ==
  /\ Returned
  /\ from = [vertexX |-> 3, vertexY |-> 3]
  /\ to = [vertexX |-> 0, vertexY |-> 0]
  /\ previousAngle = Null
  /\ segment.exitAngle = NORTHWEST
  /\ Len(segment.waypoints) = 2
  /\ segment.waypoints[1].outgoingAngle = NORTHWEST
  /\ segment.waypoints[2].incomingAngle = NORTHWEST

\* C27: for every BEND and both trim points, the Euclidean distance between
\* the knee and the trim point equals the effective radius, for diagonal
\* incoming or outgoing directions as for axis-aligned ones.
C27_TrimDistanceIsRadius ==
  CurveMade =>
     \A k \in DrawnCurve :
        DistinctEnds(k) =>
           /\ SquaredDistance(KneePoint(k).x32, KneePoint(k).y32,
                              curves[k].start.x32, curves[k].start.y32)
                = curves[k].radius32 * curves[k].radius32
           /\ SquaredDistance(KneePoint(k).x32, KneePoint(k).y32,
                              curves[k].end.x32, curves[k].end.y32)
                = curves[k].radius32 * curves[k].radius32

\* ------------------------------------------------------------------------
\* C28: the spacing of stations in MetroBuildingScreen
\* ------------------------------------------------------------------------

ManhattanDistance(s, t) == Abs(s.vertexX - t.vertexX) + Abs(s.vertexY - t.vertexY)

\* any two distinct entries of gameState.stations are at Manhattan distance
\* at least 2
StationsSpaced ==
  gameState # NoGameState =>
     \A i, j \in 1..Len(gameState.stations) :
        i # j => ManhattanDistance(gameState.stations[i], gameState.stations[j]) >= 2

\* some station lies at Manhattan distance at most 1 of the vertex
CrowdedVertex(vertexX, vertexY) ==
  \E i \in 1..Len(gameState.stations) :
     ManhattanDistance(gameState.stations[i],
                       [vertexX |-> vertexX, vertexY |-> vertexY]) <= 1

\* some station lies on the vertex
OccupiedVertex(vertexX, vertexY) ==
  \E i \in 1..Len(gameState.stations) :
     ManhattanDistance(gameState.stations[i],
                       [vertexX |-> vertexX, vertexY |-> vertexY]) = 0

\* the sequence s without its entry i
WithoutEntry(s, i) == SubSeq(s, 1, i - 1) \o SubSeq(s, i + 1, Len(s))

\* the vertex lies on the map
OnTheMap(vertexX, vertexY) ==
  /\ vertexX \in 0..gameState.map.width
  /\ vertexY \in 0..gameState.map.height

\* the entries of the sequence s that lie off the vertex, in their order
RECURSIVE OffVertex(_, _, _)
OffVertex(s, vertexX, vertexY) ==
  IF s = <<>> THEN <<>>
  ELSE LET rest == OffVertex(Tail(s), vertexX, vertexY)
       IN  IF Head(s).vertexX = vertexX /\ Head(s).vertexY = vertexY
           THEN rest
           ELSE <<Head(s)>> \o rest

\* What the click at the local position (x, y) does in the state at hand,
\* told by the vertex it rounds to and by the places of the stations, not by
\* their identifiers: nothing in mode NONE; in mode ADDING nothing off the
\* map or on a vertex with a station on it or 4-adjacent to it (a rejected
\* add), and otherwise one station pushed on that vertex; in mode REMOVING
\* nothing at a vertex with no station on it, and otherwise the station of
\* that vertex taken out, the others kept in their order.
ClickFollowsRule(x, y) ==
  LET vertexX == roundToVertex(x)
      vertexY == roundToVertex(y)
      before == gameState.stations
      after == onMapClick(x, y).stations
  IN  /\ onMapClick(x, y).map = gameState.map
      /\ onMapClick(x, y).seed = gameState.seed
      /\ stationMode = "NONE" => after = before
      /\ stationMode = "ADDING" =>
            IF OnTheMap(vertexX, vertexY) /\ ~CrowdedVertex(vertexX, vertexY)
            THEN /\ Len(after) = Len(before) + 1
                 /\ SubSeq(after, 1, Len(before)) = before
                 /\ after[Len(after)].vertexX = vertexX
                 /\ after[Len(after)].vertexY = vertexY
            ELSE after = before
      /\ stationMode = "REMOVING" =>
            IF OnTheMap(vertexX, vertexY) /\ OccupiedVertex(vertexX, vertexY)
            THEN /\ Len(after) = Len(before) - 1
                 /\ after = OffVertex(before, vertexX, vertexY)
            ELSE after = before

\* every click the map can receive follows the rule
StationListChangesByRule ==
  IF gameState = NoGameState
  THEN \A x \in ClickPositions(MapWidthMax), y \in ClickPositions(MapHeightMax) :
          onMapClick(x, y) = gameState
  ELSE \A x \in ClickPositions(MapWidthMax), y \in ClickPositions(MapHeightMax) :
          ClickFollowsRule(x, y)

C30_SeedStaysInRange ==
  pc = "seed" =>
     /\ currentSeed \in 0..999
     /\ currentSeed = 999 => adjustSeed(currentSeed, 1) = 0
     /\ currentSeed = 0 => adjustSeed(currentSeed, -1) = 999
     /\ \A seed \in 0..999 :
           /\ adjustSeed(seed, 1) = IF seed = 999 THEN 0 ELSE seed + 1
           /\ adjustSeed(seed, -1) = IF seed = 0 THEN 999 ELSE seed - 1

\* the seed 999, reached by one press of - at the seed 0
C30_Witness ==
  /\ pc = "seed"
  /\ seedPresses = 1
  /\ currentSeed = 999

\* ------------------------------------------------------------------------
\* C29: the simulation clock of MetroSimulationScreen
\* ------------------------------------------------------------------------

\* simulated minutes per real second
MinutesPerSecond(speed) ==
  CASE speed = "1x" -> 5 [] speed = "2x" -> 10
    [] speed = "4x" -> 20 [] speed = "12x" -> 60

\* the first update after a start adds the real time since the start times
\* the rate of the current speed: (clock - startTime) ms of real time are
\* (clock - startTime) * rate * 60 ms of simulated time
FirstUpdateAddsTimeSinceStart ==
  (Update /\ isRunning /\ firstUpdatePending /\ gameState # NoGameState) =>
     gameState'.simulationTime =
        gameState.simulationTime
          + (clock - startTime) * MinutesPerSecond(currentSpeed) * 60

\* this.gameState.simulationTime has a value before and after the step, and
\* the two differ
SimulationTimeChanges ==
  /\ gameState # NoGameState
  /\ gameState' # NoGameState
  /\ gameState'.simulationTime # gameState.simulationTime

\* C29, as claimed: gameState.simulationTime changes only in update() calls
\* made while isRunning is true (so not after stopSimulation or onDestroy
\* and never in setSpeed), and the first update after start adds only the
\* real time elapsed since start times the rate of the current speed (5, 10,
\* 20 or 60 simulated minutes per real second).
C29_OnlyRunningUpdatesChangeTime ==
  /\ [][SimulationTimeChanges => (Update /\ isRunning)]_vars
  /\ [][FirstUpdateAddsTimeSinceStart]_vars

\* C29, amended: gameState.simulationTime changes only in update() calls
\* made while isRunning is true and in setGameState, which installs a game
\* state and gives it the default start when its simulationTime is missing
\* or invalid; the first update after start adds only the real time elapsed
\* since start times the rate of the current speed.
C29_OnlyUpdatesAndSetGameStateChangeTime ==
  /\ [][SimulationTimeChanges => ((Update /\ isRunning) \/ SetGameState)]_vars
  /\ [][FirstUpdateAddsTimeSinceStart]_vars

\* started at 0 ms, set to 12x, first updated at 1 ms: 1 ms of real time
\* became 3600 ms of simulated time
C29_Witness ==
  /\ pc = "sim"
  /\ isRunning /\ ~firstUpdatePending
  /\ currentSpeed = "12x"
  /\ startTime = 0 /\ lastUpdateTime = 1 /\ clock = 1
  /\ gameState # NoGameState
  /\ gameState.simulationTime = 3600

====
